---- MODULE Spec2Model ----
(***************************************************************************)
(* Point-of-sale backend (src/backend/server.js): the sale transaction     *)
(* POST /api/ventas over a Sequelize store with dialect "sqlite", together *)
(* with the catalog routes that write the same product rows.               *)
(*                                                                         *)
(* The store is one SQLite file.  Every sequelize.transaction() runs on a  *)
(* connection of its own (BEGIN DEFERRED); the first write statement of a  *)
(* transaction takes the database write lock and keeps it until COMMIT or  *)
(* ROLLBACK; a write attempted while another connection holds the lock     *)
(* fails with SQLITE_BUSY.  Statements outside a transaction run in        *)
(* autocommit mode on the default connection and read committed data.      *)
(***************************************************************************)
EXTENDS Integers, Sequences, FiniteSets, TLC

\* ------------------------------------------------------------------ bounds
MaxStock == 2        \* stocks and quantities range over 0..MaxStock
MaxPrecio == 2       \* catalog prices range over 1..MaxPrecio
MaxPrecioItem == 1   \* prices sent by the caller range over 0..MaxPrecioItem
MaxItems == 2        \* a sale request carries up to MaxItems items
MaxEdiciones == 1    \* writes of the catalog and customer routes in a run

\* ------------------------------------------------------------- small sets
Reqs == {1, 2}
ProductIds == {1, 2}
ClienteIds == {1, 2}

VARIABLES
  productos,      \* table productos: id -> [existe, stock, precio_venta]
  clientes,       \* table clientes: id -> [existe, ultima_compra, telefono]
  ventas,         \* table ventas (committed rows, in id order)
  detalles,       \* table ventas_detalles (committed rows, in id order)
  ventaSeq,       \* AUTOINCREMENT counter of ventas (committed)
  productoSeq,    \* AUTOINCREMENT counter of productos
  clienteSeq,     \* AUTOINCREMENT counter of clientes
  reloj,          \* wall clock read by new Date()
  lock,           \* connection holding the SQLite write lock, 0 when free
  pc,             \* position of each sale request in its handler
  body,           \* req.body of each sale request
  idx,            \* position of the for loop over detalles
  producto,       \* the Producto instance loaded by findByPk
  nuevaVenta,     \* the Venta instance returned by Venta.create
  totalCalculado, \* running total
  detallesVenta,  \* staged line items
  tx,             \* the transaction object and what it has written
  resp,           \* the response sent for each sale request
  ediciones,      \* number of catalog and customer writes so far
  fallo,          \* history: the classified failure each request ran into
  descontado,     \* history: what the steps of each request took off the
                  \*   committed stock of each product
  tocado,         \* history: the customers whose committed row the steps of
                  \*   each request changed
  lectura,        \* the last answer of GET /api/ventas/:id
  catalogo,       \* the last answer of GET /api/productos
  credencial      \* history: the credential each sale request carried, and
                  \*   at 0 the one of the last delete request that ran

storeVars == <<productos, clientes, ventas, detalles, ventaSeq, productoSeq,
               clienteSeq>>
localVars == <<body, idx, producto, nuevaVenta, totalCalculado, detallesVenta>>
vars == <<productos, clientes, ventas, detalles, ventaSeq, productoSeq, clienteSeq,
          reloj, lock, pc,
          body, idx, producto, nuevaVenta, totalCalculado, detallesVenta,
          tx, resp, ediciones, fallo, descontado, tocado, lectura, catalogo,
          credencial>>

\* ------------------------------------------------------------ pure helpers
RECURSIVE SumSeq(_)
SumSeq(s) == IF s = <<>> THEN 0 ELSE Head(s) + SumSeq(Tail(s))

\* the subtotals of a sequence of line items
Subtotales(ds) == [k \in 1..Len(ds) |-> ds[k].subtotal]

\* quantity a list of items asks of product p
RECURSIVE CantidadDe(_, _)
CantidadDe(ds, p) ==
  IF ds = <<>> THEN 0
  ELSE (IF Head(ds).producto_id = p THEN Head(ds).cantidad ELSE 0)
       + CantidadDe(Tail(ds), p)

NoProducto == [id |-> 0, stock |-> 0, precio_venta |-> 0]
NoVenta == [id |-> 0, total |-> 0]
NoBody == [usuario_id |-> 0, cliente_id |-> 0, metodo_pago |-> "", total |-> 0,
           detalles |-> <<>>]
NoCliente == [existe |-> FALSE, ultima_compra |-> 0, telefono |-> ""]
NoLectura == [status |-> 0, id |-> 0, venta |-> <<>>]
NoCatalogo == [status |-> 0, productos |-> {}]
NoResp == [status |-> 0, info |-> 0, details |-> ""]
NoFallo == [tipo |-> "", item |-> 0, producto_id |-> 0]
NoCredencial == [token |-> "", id |-> 0, rol |-> ""]
NoTx == [estado |-> "none", venta |-> <<>>, detalles |-> <<>>,
         stock |-> [p \in ProductIds |-> <<>>], cliente |-> 0]

Init ==
  /\ productos = [p \in ProductIds |->
                    IF p = 1
                    THEN [existe |-> TRUE, stock |-> MaxStock,
                          precio_venta |-> MaxPrecio]
                    ELSE [existe |-> FALSE, stock |-> 0, precio_venta |-> 0]]
  /\ clientes = [c \in ClienteIds |->
                    IF c = 1
                    THEN [existe |-> TRUE, ultima_compra |-> 0,
                          telefono |-> "1111111"]
                    ELSE NoCliente]
  /\ ventas = <<>>
  /\ detalles = <<>>
  /\ ventaSeq = 0
  /\ productoSeq = 1
  /\ clienteSeq = 1
  /\ reloj = 0
  /\ lock = 0
  /\ pc = [r \in Reqs |-> "idle"]
  /\ body = [r \in Reqs |-> NoBody]
  /\ idx = [r \in Reqs |-> 0]
  /\ producto = [r \in Reqs |-> NoProducto]
  /\ nuevaVenta = [r \in Reqs |-> NoVenta]
  /\ totalCalculado = [r \in Reqs |-> 0]
  /\ detallesVenta = [r \in Reqs |-> <<>>]
  /\ tx = [r \in Reqs |-> NoTx]
  /\ resp = [r \in Reqs |-> NoResp]
  /\ ediciones = 0
  /\ fallo = [r \in Reqs |-> NoFallo]
  /\ descontado = [r \in Reqs |-> [p \in ProductIds |-> 0]]
  /\ tocado = [r \in Reqs |-> {}]
  /\ lectura = NoLectura
  /\ catalogo = NoCatalogo
  /\ credencial = [c \in Reqs \cup {0} |-> NoCredencial]

\* ------------------------------------------------------------- middlewares
\* credentials a request can carry: none, a bad token, or a verified user
Usuarios == {[token |-> "valido", id |-> 1, rol |-> "admin"],
             [token |-> "valido", id |-> 2, rol |-> "vendedor"],
             [token |-> "valido", id |-> 3, rol |-> "cocina"]}

\* what request r can carry: no token, a bad one, the token of its operator
\* (request 1 is sent by the admin, request 2 by the vendedor), or the token of
\* a user with another role
Credenciales(r) ==
  {[token |-> "ausente", id |-> 0, rol |-> ""],
   [token |-> "invalido", id |-> 0, rol |-> ""]}
  \cup {u \in Usuarios : u.id = r \/ u.rol = "cocina"}

\* the credentials a delete request can carry
Operadores ==
  {[token |-> "ausente", id |-> 0, rol |-> ""],
   [token |-> "invalido", id |-> 0, rol |-> ""]} \cup Usuarios

\* (variant) authenticateJWT alone, as on the route without authorizeRoles
AutorizarSoloToken(cred, roles) ==
  IF cred.token = "ausente" THEN 401
  ELSE IF cred.token = "invalido" THEN 403
  ELSE 0

\* authenticateJWT followed by authorizeRoles(roles): 0 when the request passes
Autorizar(cred, roles) ==
  IF cred.token = "ausente" THEN 401
  ELSE IF cred.token = "invalido" THEN 403
  ELSE IF cred.rol \notin roles THEN 403
  ELSE 0

\* a field of a request body: <<>> when absent, <<v>> when present
Campo(valores) == {<<>>} \cup {<<v>> : v \in valores}

MetodosPago == {"efectivo", "tarjeta", "transferencia", "otros"}

\* (variant) the items are not validated, as in the handler without validate
ValidItemAnterior(it) == TRUE

\* schemas.ventaPOST: one item of detalles
ValidItem(it) ==
  /\ it.producto_id >= 1
  /\ it.cantidad >= 1
  /\ it.precio_unitario # <<>>
  /\ it.precio_unitario[1] >= 1

\* (variant) schemas.ventaPOST without .min(1) on detalles
ValidVentaPOSTSinMin(b) ==
  /\ b.cliente_id >= 0
  /\ b.metodo_pago \in MetodosPago
  /\ \A k \in 1..Len(b.detalles) : ValidItem(b.detalles[k])
  /\ b.total >= 0

\* (variant) the check of the handler without validate:
\* !metodo_pago || !detalles || detalles.length === 0
ValidVentaPOSTAnterior(b) ==
  /\ b.metodo_pago # ""
  /\ Len(b.detalles) >= 1

\* schemas.ventaPOST
ValidVentaPOST(b) ==
  /\ b.cliente_id >= 0
  /\ b.metodo_pago \in MetodosPago
  /\ Len(b.detalles) >= 1
  /\ \A k \in 1..Len(b.detalles) : ValidItem(b.detalles[k])
  /\ b.total >= 0

\* request bodies the model sends (valid and invalid ones)
Items == [producto_id : ProductIds, cantidad : 0..MaxStock,
          precio_unitario : Campo(0..MaxPrecioItem)]
Listas == UNION {[1..n -> Items] : n \in 0..MaxItems}
Bodies == [usuario_id : {0}, cliente_id : {0} \cup ClienteIds,
           metodo_pago : {"efectivo", "cheque"}, total : {0, 1},
           detalles : Listas]

\* what validate(schemas.ventaPOST, "body") can answer, and the bodies it lets
\* through.  The handler reads req.body after the middleware; the model draws
\* the validated body where the handler first uses it (Venta.create)
Validaciones == {ValidVentaPOST(b) : b \in Bodies}
BodiesValidos == {b \in Bodies : ValidVentaPOST(b)}

\* the error Joi reports for an item (abortEarly: the first one, keys in the
\* order of the schema), "" when the item passes
ErrorItem(it) ==
  IF it.cantidad < 1 THEN "cantidad: number.min"
  ELSE IF it.precio_unitario = <<>> THEN "precio_unitario: any.required"
  ELSE IF it.precio_unitario[1] < 1 THEN "precio_unitario: number.min"
  ELSE ""

RECURSIVE ErrorItems(_)
ErrorItems(ds) ==
  IF ds = <<>> THEN ""
  ELSE IF ErrorItem(Head(ds)) # "" THEN ErrorItem(Head(ds))
  ELSE ErrorItems(Tail(ds))

\* error.details of schema.validate(req.body), "" when there is no error
ErrorDe(b) ==
  IF b.metodo_pago \notin MetodosPago THEN "metodo_pago: any.only"
  ELSE IF ErrorItems(b.detalles) # "" THEN ErrorItems(b.detalles)
  ELSE IF Len(b.detalles) < 1 THEN "detalles: array.min"
  ELSE ""

\* the details the 422 answer of validate can carry
Rechazos == {ErrorDe(b) : b \in Bodies} \ {""}

\* ------------------------------------------------------------ the store
\* (variant) no write lock: writers never wait for each other
PuedeEscribirSiempre(c) == TRUE

\* a write statement can run when no other connection holds the write lock
PuedeEscribir(c) == lock \in {0, c}

\* (variant) the read without the option { transaction }: committed stock
StockLeidoConfirmado(r, p) == productos[p].stock

\* stock of product p as transaction r reads it: its own write, else committed
StockLeido(r, p) ==
  IF tx[r].stock[p] # <<>> THEN tx[r].stock[p][1] ELSE productos[p].stock

\* the transaction object once finished with state e: what it wrote is gone
Terminada(e) == [NoTx EXCEPT !.estado = e]

\* the lock once connection c has ended its transaction
Liberar(c) == IF lock = c THEN 0 ELSE lock

\* (variant) UPDATE productos SET stock without the WHERE id: a stock written
\* by the transaction lands in every row
AplicarStockSinWhere(w) ==
  LET escritos == {p \in ProductIds : w[p] # <<>>} IN
  IF escritos = {} THEN productos
  ELSE [p \in ProductIds |->
          [productos[p] EXCEPT !.stock = w[CHOOSE q \in escritos : TRUE][1]]]

\* productos after the stock writes w of a committed transaction
AplicarStock(w) ==
  [p \in ProductIds |->
     IF w[p] # <<>> THEN [productos[p] EXCEPT !.stock = w[p][1]]
     ELSE productos[p]]

\* (variant) the ultima_compra write is lost at COMMIT
AplicarClienteNunca(c, t) == clientes

\* clientes after the ultima_compra write of a committed transaction
AplicarCliente(c, t) ==
  IF c # 0 /\ t # 0
  THEN [clientes EXCEPT ![c].ultima_compra = t]
  ELSE clientes

\* history of a step of request r: what the step took off the committed
\* stock, and the customers whose committed row it changed
Historia(r) ==
  /\ descontado' = [descontado EXCEPT ![r] =
        [p \in ProductIds |-> @[p] + productos[p].stock - productos'[p].stock]]
  /\ tocado' = [tocado EXCEPT ![r] =
        @ \cup {c \in ClienteIds : clientes'[c] # clientes[c]}]

\* ------------------------------------------------- POST /api/ventas handler
\* the request leaves the handler: its local variables are dropped
Fin(r, status, info) ==
  /\ pc' = [pc EXCEPT ![r] = "done"]
  /\ resp' = [resp EXCEPT ![r] =
                [status |-> status, info |-> info, details |-> ""]]
  /\ body' = [body EXCEPT ![r] = NoBody]
  /\ idx' = [idx EXCEPT ![r] = 0]
  /\ producto' = [producto EXCEPT ![r] = NoProducto]
  /\ nuevaVenta' = [nuevaVenta EXCEPT ![r] = NoVenta]
  /\ totalCalculado' = [totalCalculado EXCEPT ![r] = 0]
  /\ detallesVenta' = [detallesVenta EXCEPT ![r] = <<>>]

\* validate answers 422 with the details of the error; the handler never runs
Rechazar(r, details) ==
  /\ pc' = [pc EXCEPT ![r] = "done"]
  /\ resp' = [resp EXCEPT ![r] =
                [status |-> 422, info |-> 0, details |-> details]]
  /\ UNCHANGED <<body, idx, producto, nuevaVenta, totalCalculado,
                 detallesVenta>>

\* an exception leaves the async handler: Express 4 sends nothing (status 0),
\* Express 5 hands it to the global error middleware, which answers 500
SinCapturar(r) ==
  \E s \in {0, 500} : Fin(r, s, 0)

\* the handler moves on to its next statement
Saltar(r, donde) ==
  /\ pc' = [pc EXCEPT ![r] = donde]
  /\ UNCHANGED <<resp, body, idx, producto, nuevaVenta, totalCalculado,
                 detallesVenta>>

\* the handler moves on to a statement after which it reads none of its local
\* variables but nuevaVenta.id (the catch block, the re-read after commit)
SaltarFinal(r, donde) ==
  /\ pc' = [pc EXCEPT ![r] = donde]
  /\ body' = [body EXCEPT ![r] = NoBody]
  /\ idx' = [idx EXCEPT ![r] = 0]
  /\ producto' = [producto EXCEPT ![r] = NoProducto]
  /\ nuevaVenta' = [nuevaVenta EXCEPT ![r].total = 0]
  /\ totalCalculado' = [totalCalculado EXCEPT ![r] = 0]
  /\ detallesVenta' = [detallesVenta EXCEPT ![r] = <<>>]
  /\ UNCHANGED resp

\* authenticateJWT, authorizeRoles(["admin","vendedor"]), validate(ventaPOST)
Llegada(r) ==
  /\ pc[r] = "idle"
  /\ \E cred \in Credenciales(r) :
       LET a == Autorizar(cred, {"admin", "vendedor"}) IN
       /\ credencial' = [credencial EXCEPT ![r] = cred]
       /\ IF a # 0
          THEN Fin(r, a, 0)
          ELSE \E valido \in Validaciones :
                 IF ~valido
                 THEN \E details \in Rechazos : Rechazar(r, details)
                 ELSE /\ pc' = [pc EXCEPT ![r] = "begin"]
                      /\ body' = [body EXCEPT ![r].usuario_id = cred.id]
                      /\ UNCHANGED <<resp, idx, producto, nuevaVenta,
                                     totalCalculado, detallesVenta>>
  /\ UNCHANGED <<storeVars, reloj, lock, tx, ediciones>>
  /\ Historia(r)
  /\ UNCHANGED <<lectura, catalogo>>
  /\ fallo' = fallo

\* const transaction = await sequelize.transaction()   (outside the try)
AbrirTransaccion(r) ==
  /\ pc[r] = "begin"
  /\ \E ok \in BOOLEAN :
       IF ok
       THEN /\ tx' = [tx EXCEPT ![r].estado = "open"]
            /\ Saltar(r, "create")
       ELSE /\ tx' = tx
            /\ SinCapturar(r)
  /\ UNCHANGED <<storeVars, reloj, lock, ediciones>>
  /\ Historia(r)
  /\ UNCHANGED <<lectura, catalogo, credencial>>
  /\ fallo' = fallo

\* (variant) usuario_id is read from the request body
FilaVentaDelCuerpo(r, b) ==
  [id |-> ventaSeq + 1,
   cliente_id |-> b.cliente_id,
   usuario_id |-> b.usuario_id,
   metodo_pago |-> b.metodo_pago,
   total |-> b.total,
   estado |-> "completada",
   origen |-> r,
   pedido |-> b.detalles,
   cliente |-> b.cliente_id,
   edicion |-> ediciones]

\* the row Venta.create inserts for body b; origen, pedido, cliente and
\* edicion are history fields (the request the row comes from, the items and
\* the customer it named, the catalog and customer writes before it), as is
\* origen in the rows of ventas_detalles
FilaVenta(r, b) ==
  [id |-> ventaSeq + 1,
   cliente_id |-> b.cliente_id,
   usuario_id |-> body[r].usuario_id,
   metodo_pago |-> b.metodo_pago,
   total |-> b.total,
   estado |-> "completada",
   origen |-> r,
   pedido |-> b.detalles,
   cliente |-> b.cliente_id,
   edicion |-> ediciones]

\* Venta.create({...}, { transaction }): the first write of the transaction
CrearVenta(r) ==
  /\ pc[r] = "create"
  /\ \/ /\ PuedeEscribir(r)
        /\ lock' = r
        /\ \E b \in BodiesValidos :
             /\ IF b.cliente_id # 0 /\ ~clientes[b.cliente_id].existe
                THEN \* FOREIGN KEY constraint failed
                     /\ tx' = tx
                     /\ fallo' = [fallo EXCEPT ![r].tipo = "ForeignKey"]
                     /\ SaltarFinal(r, "catch")
                ELSE /\ tx' = [tx EXCEPT ![r].venta = <<FilaVenta(r, b)>>]
                     /\ fallo' = fallo
                     /\ nuevaVenta' = [nuevaVenta EXCEPT ![r] =
                                         [id |-> ventaSeq + 1, total |-> b.total]]
                     /\ body' = [body EXCEPT ![r] =
                                   [b EXCEPT !.usuario_id = body[r].usuario_id]]
                     /\ idx' = [idx EXCEPT ![r] = 1]
                     /\ pc' = [pc EXCEPT ![r] =
                                 IF Len(b.detalles) >= 1 THEN "find" ELSE "bulk"]
                     /\ UNCHANGED <<resp, producto, totalCalculado, detallesVenta>>
     \/ \* SQLITE_BUSY when another connection holds the write lock, or
        \* another storage error
        /\ UNCHANGED <<lock, tx>>
        /\ fallo' = [fallo EXCEPT ![r].tipo =
                       IF PuedeEscribir(r) THEN @ ELSE "Conflict"]
        /\ SaltarFinal(r, "catch")
  /\ UNCHANGED <<storeVars, reloj, ediciones>>
  /\ Historia(r)
  /\ UNCHANGED <<lectura, catalogo, credencial>>

\* (variant) the !producto check is missing
ExisteSiempre(p) == TRUE

\* findByPk found a row: !producto is false
Existe(p) == productos[p].existe

\* (variant) the loop walks the list from its end
ItemInverso(r) == body[r].detalles[Len(body[r].detalles) + 1 - idx[r]]

\* the item the for loop is at
Item(r) == body[r].detalles[idx[r]]

\* (variant) producto.stock <= item.cantidad
StockInsuficienteIgual(stock, cantidad) == stock <= cantidad

\* producto.stock < item.cantidad
StockInsuficiente(stock, cantidad) == stock < cantidad

\* item.precio_unitario || producto.precio_venta
PrecioUnitarioReal(precio_unitario, precio_venta) ==
  IF precio_unitario # <<>> /\ precio_unitario[1] # 0 THEN precio_unitario[1]
  ELSE precio_venta

\* item.cantidad * precioUnitarioReal
SubtotalItem(cantidad, precio) == cantidad * precio

\* (variant) producto.stock - 1
NuevoStockUnidad(stock, cantidad) == stock - 1

\* producto.stock - item.cantidad
NuevoStock(stock, cantidad) == stock - cantidad

\* (variant) totalCalculado = subtotalItem
AcumularUltimo(total, subtotal) == subtotal

\* totalCalculado += subtotalItem
Acumular(total, subtotal) == total + subtotal

\* (variant) the write without the option { transaction }: it is committed
\* at once
EscribirStockSinTransaccion(r, p, n) ==
  /\ tx' = tx
  /\ productos' = [productos EXCEPT ![p].stock = n]

\* a write of stock n to product p with the option { transaction }: it stays
\* in the transaction until COMMIT
EscribirStock(r, p, n) ==
  /\ tx' = [tx EXCEPT ![r].stock[p] = <<n>>]
  /\ productos' = productos

\* Producto.findByPk(item.producto_id, { transaction }) and the two checks
BuscarProducto(r) ==
  /\ pc[r] = "find"
  /\ \/ LET it == Item(r)
            p == it.producto_id
            inst == [id |-> p, stock |-> StockLeido(r, p),
                     precio_venta |-> productos[p].precio_venta]
            precio == PrecioUnitarioReal(it.precio_unitario, inst.precio_venta)
            sub == SubtotalItem(it.cantidad, precio)
        IN
        IF ~Existe(p)
        THEN /\ fallo' = [fallo EXCEPT ![r] =
                  [tipo |-> "NotFound", item |-> idx[r], producto_id |-> p]]
             /\ Saltar(r, "rollback404")
        ELSE IF StockInsuficiente(inst.stock, it.cantidad)
        THEN /\ fallo' = [fallo EXCEPT ![r] =
                  [tipo |-> "InsufficientStock", item |-> idx[r],
                   producto_id |-> p]]
             /\ pc' = [pc EXCEPT ![r] = "rollback400"]
             /\ producto' = [producto EXCEPT ![r] = inst]
             /\ UNCHANGED <<resp, body, idx, nuevaVenta, totalCalculado,
                            detallesVenta>>
        ELSE /\ fallo' = fallo
             /\ pc' = [pc EXCEPT ![r] = "update"]
             /\ producto' = [producto EXCEPT ![r] = inst]
             /\ totalCalculado' = [totalCalculado EXCEPT ![r] = Acumular(@, sub)]
             /\ detallesVenta' = [detallesVenta EXCEPT ![r] =
                  Append(@, [venta_id |-> nuevaVenta[r].id,
                             producto_id |-> p,
                             cantidad |-> it.cantidad,
                             precio_unitario |-> precio,
                             subtotal |-> sub,
                             origen |-> r])]
             /\ UNCHANGED <<resp, body, idx, nuevaVenta>>
     \/ /\ fallo' = fallo
        /\ SaltarFinal(r, "catch")
  /\ UNCHANGED <<storeVars, reloj, lock, tx, ediciones>>
  /\ Historia(r)
  /\ UNCHANGED <<lectura, catalogo, credencial>>

\* transaction.rollback(): the transaction is marked finished before the
\* ROLLBACK statement is awaited, and its connection is closed afterwards
Rollback(r) ==
  /\ tx' = [tx EXCEPT ![r] = Terminada("rollback")]
  /\ lock' = Liberar(r)

\* await transaction.rollback(); return res.status(404)
Rollback404(r) ==
  /\ pc[r] = "rollback404"
  /\ Rollback(r)
  /\ \/ Fin(r, 404, Item(r).producto_id)
     \/ SaltarFinal(r, "catch")
  /\ UNCHANGED <<storeVars, reloj, ediciones>>
  /\ Historia(r)
  /\ UNCHANGED <<lectura, catalogo, credencial>>
  /\ fallo' = fallo

\* await transaction.rollback(); return res.status(400)
Rollback400(r) ==
  /\ pc[r] = "rollback400"
  /\ Rollback(r)
  /\ \/ Fin(r, 400, producto[r].stock)
     \/ SaltarFinal(r, "catch")
  /\ UNCHANGED <<storeVars, reloj, ediciones>>
  /\ Historia(r)
  /\ UNCHANGED <<lectura, catalogo, credencial>>
  /\ fallo' = fallo

\* producto.update({ stock: producto.stock - item.cantidad }, { transaction })
ActualizarStock(r) ==
  /\ pc[r] = "update"
  /\ \/ LET p == producto[r].id
            n == NuevoStock(producto[r].stock, Item(r).cantidad)
        IN
        /\ PuedeEscribir(r)
        /\ lock' = r
        /\ EscribirStock(r, p, n)
        /\ producto' = [producto EXCEPT ![r].stock = n]
        /\ idx' = [idx EXCEPT ![r] = @ + 1]
        /\ pc' = [pc EXCEPT ![r] =
                    IF idx[r] + 1 <= Len(body[r].detalles) THEN "find" ELSE "bulk"]
        /\ UNCHANGED <<resp, body, nuevaVenta, totalCalculado, detallesVenta>>
     \/ /\ UNCHANGED <<lock, tx, productos>>
        /\ SaltarFinal(r, "catch")
  /\ UNCHANGED <<clientes, ventas, detalles, ventaSeq, productoSeq, clienteSeq,
                 reloj, ediciones>>
  /\ Historia(r)
  /\ UNCHANGED <<lectura, catalogo, credencial>>
  /\ fallo' = fallo

\* VentaDetalle.bulkCreate(detallesVenta, { transaction })
BulkCreate(r) ==
  /\ pc[r] = "bulk"
  /\ \/ /\ PuedeEscribir(r)
        /\ lock' = r
        /\ tx' = [tx EXCEPT ![r].detalles = detallesVenta[r]]
        /\ Saltar(r, "total")
     \/ /\ UNCHANGED <<lock, tx>>
        /\ SaltarFinal(r, "catch")
  /\ UNCHANGED <<storeVars, reloj, ediciones>>
  /\ Historia(r)
  /\ UNCHANGED <<lectura, catalogo, credencial>>
  /\ fallo' = fallo

\* nuevaVenta.update({ total: totalCalculado }, { transaction })
ActualizarTotal(r) ==
  /\ pc[r] = "total"
  /\ \/ /\ PuedeEscribir(r)
        /\ lock' = r
        /\ tx' = [tx EXCEPT ![r].venta =
                    [k \in 1..Len(@) |-> [@[k] EXCEPT !.total = totalCalculado[r]]]]
        /\ nuevaVenta' = [nuevaVenta EXCEPT ![r].total = totalCalculado[r]]
        /\ pc' = [pc EXCEPT ![r] =
                    IF body[r].cliente_id # 0 THEN "cliente" ELSE "commit"]
        /\ UNCHANGED <<resp, body, idx, producto, totalCalculado, detallesVenta>>
     \/ /\ UNCHANGED <<lock, tx>>
        /\ SaltarFinal(r, "catch")
  /\ UNCHANGED <<storeVars, reloj, ediciones>>
  /\ Historia(r)
  /\ UNCHANGED <<lectura, catalogo, credencial>>
  /\ fallo' = fallo

\* Cliente.findByPk(cliente_id, { transaction }) and, if found,
\* cliente.update({ ultima_compra: new Date() }, { transaction })
TocarCliente(r) ==
  /\ pc[r] = "cliente"
  /\ \/ IF clientes[body[r].cliente_id].existe
        THEN /\ PuedeEscribir(r)
             /\ lock' = r
             /\ reloj' = reloj + 1
             /\ tx' = [tx EXCEPT ![r].cliente = reloj + 1]
             /\ Saltar(r, "commit")
        ELSE /\ UNCHANGED <<lock, tx, reloj>>
             /\ Saltar(r, "commit")
     \/ /\ UNCHANGED <<lock, tx, reloj>>
        /\ SaltarFinal(r, "catch")
  /\ UNCHANGED <<storeVars, ediciones>>
  /\ Historia(r)
  /\ UNCHANGED <<lectura, catalogo, credencial>>
  /\ fallo' = fallo

\* transaction.commit(): COMMIT installs every write of the transaction at
\* once; the transaction is marked finished whether or not COMMIT succeeds
Commit(r) ==
  /\ pc[r] = "commit"
  /\ tx' = [tx EXCEPT ![r] = Terminada("commit")]
  /\ lock' = Liberar(r)
  /\ \/ /\ ventas' = ventas \o tx[r].venta
        /\ detalles' = detalles \o tx[r].detalles
        /\ productos' = AplicarStock(tx[r].stock)
        /\ clientes' = AplicarCliente(body[r].cliente_id, tx[r].cliente)
        /\ ventaSeq' = IF tx[r].venta # <<>> THEN tx[r].venta[1].id ELSE ventaSeq
        /\ UNCHANGED <<productoSeq, clienteSeq>>
        /\ SaltarFinal(r, "reread")
     \/ /\ UNCHANGED storeVars
        /\ SaltarFinal(r, "catch")
  /\ UNCHANGED <<reloj, ediciones>>
  /\ Historia(r)
  /\ UNCHANGED <<lectura, catalogo, credencial>>
  /\ fallo' = fallo

\* Venta.findByPk(nuevaVenta.id, { include: ... }); res.status(201)
Releer(r) ==
  /\ pc[r] = "reread"
  /\ \/ Fin(r, 201, nuevaVenta[r].id)
     \/ SaltarFinal(r, "catch")
  /\ UNCHANGED <<storeVars, reloj, lock, tx, ediciones>>
  /\ Historia(r)
  /\ UNCHANGED <<lectura, catalogo, credencial>>
  /\ fallo' = fallo

\* catch (error) { await transaction.rollback(); res.status(500) }
\* rollback() throws when the transaction is already finished
Catch(r) ==
  /\ pc[r] = "catch"
  /\ IF tx[r].estado # "open"
     THEN /\ UNCHANGED <<tx, lock>>
          /\ SinCapturar(r)
     ELSE /\ Rollback(r)
          /\ \/ Fin(r, 500, 0)
             \/ SinCapturar(r)
  /\ UNCHANGED <<storeVars, reloj, ediciones>>
  /\ Historia(r)
  /\ UNCHANGED <<lectura, catalogo, credencial>>
  /\ fallo' = fallo

\* ------------------------------------------------- /api/productos handlers
ProductoBodies == [stock : Campo((0 - 1)..MaxStock),
                   precio_venta : Campo(0..MaxPrecio)]

\* (variant) no validation of the body, as in the unvalidated PUT handler
ValidProductoPUTSinValidar(b) == TRUE

\* schemas.productoPUT (stock and precio_venta)
ValidProductoPUT(b) ==
  /\ b.stock # <<>> => b.stock[1] >= 0
  /\ b.precio_venta # <<>> => b.precio_venta[1] >= 1

\* schemas.productoPOST (stock and precio_venta)
ValidProductoPOST(b) ==
  /\ b.stock # <<>> => b.stock[1] >= 0
  /\ b.precio_venta # <<>>
  /\ b.precio_venta[1] >= 1

\* PUT /api/productos/:id: Producto.findByPk(id), the assignments and
\* producto.save(), which writes the fields whose value differs from the one
\* read.  A sale that commits between the read and the save leaves the same
\* rows as one that commits before the read or after the save, so the handler
\* is one step
PutProducto ==
  /\ ediciones < MaxEdiciones
  /\ PuedeEscribir(0)
  /\ \E id \in ProductIds, b \in ProductoBodies :
       LET leido == productos[id]
           stock == IF b.stock # <<>> THEN b.stock[1] ELSE leido.stock
           precio == IF b.precio_venta # <<>> THEN b.precio_venta[1]
                     ELSE leido.precio_venta
       IN
       /\ ValidProductoPUT(b)
       /\ leido.existe
       /\ stock # leido.stock \/ precio # leido.precio_venta
       /\ productos' = [productos EXCEPT ![id].stock = stock,
                                         ![id].precio_venta = precio]
  /\ ediciones' = ediciones + 1
  /\ UNCHANGED <<clientes, ventas, detalles, ventaSeq, productoSeq, clienteSeq,
                 reloj, lock, pc, localVars, tx, resp>>
  /\ UNCHANGED <<fallo, descontado, tocado, lectura, catalogo, credencial>>

\* POST /api/productos: Producto.create(...)
PostProducto ==
  /\ ediciones < MaxEdiciones
  /\ productoSeq + 1 \in ProductIds
  /\ PuedeEscribir(0)
  /\ \E b \in ProductoBodies :
       /\ ValidProductoPOST(b)
       /\ productos' = [productos EXCEPT ![productoSeq + 1] =
                          [existe |-> TRUE,
                           stock |-> IF b.stock # <<>> THEN b.stock[1] ELSE 0,
                           precio_venta |-> b.precio_venta[1]]]
  /\ productoSeq' = productoSeq + 1
  /\ ediciones' = ediciones + 1
  /\ UNCHANGED <<clientes, ventas, detalles, ventaSeq, clienteSeq, reloj, lock,
                 pc, localVars, tx, resp>>
  /\ UNCHANGED <<fallo, descontado, tocado, lectura, catalogo, credencial>>

\* DELETE /api/productos/:id: Producto.destroy({ where: { id } }).  The
\* foreign key ventas_detalles.producto_id is declared by the associations
\* with ON DELETE SET NULL: the line items of the product lose their reference
DeleteProducto ==
  /\ ediciones < MaxEdiciones
  /\ PuedeEscribir(0)
  /\ \E cred \in Operadores :
       IF Autorizar(cred, {"admin"}) # 0
       THEN \* 401 or 403: the handler never runs
            UNCHANGED vars
       ELSE /\ \E id \in ProductIds :
                 /\ productos[id].existe
                 /\ productos' = [productos EXCEPT ![id] =
                        [existe |-> FALSE, stock |-> 0, precio_venta |-> 0]]
                 /\ detalles' = [k \in 1..Len(detalles) |->
                                   IF detalles[k].producto_id = id
                                   THEN [detalles[k] EXCEPT !.producto_id = 0]
                                   ELSE detalles[k]]
            /\ ediciones' = ediciones + 1
            /\ credencial' = [credencial EXCEPT ![0] = cred]
            /\ UNCHANGED <<clientes, ventas, ventaSeq, productoSeq, clienteSeq,
                           reloj, lock, pc, localVars, tx, resp>>
            /\ UNCHANGED <<fallo, descontado, tocado, lectura, catalogo>>

\* ------------------------------------------------- /api/clientes handlers
Telefonos == {"1111111", "2222222"}

\* the unique index on clientes.telefono lets the value in
TelefonoLibre(t) ==
  \A c \in ClienteIds : ~(clientes[c].existe /\ clientes[c].telefono = t)

\* POST /api/clientes: Cliente.create({ nombre, apellido, telefono, ... })
PostCliente ==
  /\ ediciones < MaxEdiciones
  /\ clienteSeq + 1 \in ClienteIds
  /\ PuedeEscribir(0)
  /\ \E t \in Telefonos :
       /\ TelefonoLibre(t)
       /\ clientes' = [clientes EXCEPT ![clienteSeq + 1] =
                         [existe |-> TRUE, ultima_compra |-> 0, telefono |-> t]]
  /\ clienteSeq' = clienteSeq + 1
  /\ ediciones' = ediciones + 1
  /\ UNCHANGED <<productos, ventas, detalles, ventaSeq, productoSeq, reloj, lock,
                 pc, localVars, tx, resp>>
  /\ UNCHANGED <<fallo, descontado, tocado, lectura, catalogo, credencial>>

\* PUT /api/clientes/:id: Cliente.findByPk(id), the assignments of the five
\* contact fields and cliente.save(), which writes the fields that changed
PutCliente ==
  /\ ediciones < MaxEdiciones
  /\ PuedeEscribir(0)
  /\ \E id \in ClienteIds, t \in Telefonos :
       /\ clientes[id].existe
       /\ t # clientes[id].telefono
       /\ TelefonoLibre(t)
       /\ clientes' = [clientes EXCEPT ![id].telefono = t]
  /\ ediciones' = ediciones + 1
  /\ UNCHANGED <<productos, ventas, detalles, ventaSeq, productoSeq, clienteSeq,
                 reloj, lock, pc, localVars, tx, resp>>
  /\ UNCHANGED <<fallo, descontado, tocado, lectura, catalogo, credencial>>

\* DELETE /api/clientes/:id: Cliente.destroy({ where: { id } }).  The foreign
\* key ventas.cliente_id is declared with ON DELETE SET NULL
DeleteCliente ==
  /\ ediciones < MaxEdiciones
  /\ PuedeEscribir(0)
  /\ \E cred \in Operadores :
       IF Autorizar(cred, {"admin"}) # 0
       THEN \* 401 or 403: the handler never runs
            UNCHANGED vars
       ELSE /\ \E id \in ClienteIds :
                 /\ clientes[id].existe
                 /\ clientes' = [clientes EXCEPT ![id] = NoCliente]
                 /\ ventas' = [k \in 1..Len(ventas) |->
                                 IF ventas[k].cliente_id = id
                                 THEN [ventas[k] EXCEPT !.cliente_id = 0]
                                 ELSE ventas[k]]
            /\ ediciones' = ediciones + 1
            /\ credencial' = [credencial EXCEPT ![0] = cred]
            /\ UNCHANGED <<productos, detalles, ventaSeq, productoSeq, clienteSeq,
                           reloj, lock, pc, localVars, tx, resp>>
            /\ UNCHANGED <<fallo, descontado, tocado, lectura, catalogo>>

\* ------------------------------------------------- GET /api/ventas/:id
VentaIds == 1..Cardinality(Reqs)

\* the rows of ventas_detalles of sale id (include: VentaDetalle)
DetallesDe(id) == SelectSeq(detalles, LAMBDA d : d.venta_id = id)

\* (variant) the unit price shown for a line item is the catalog price of
\* its product
PrecioDeLineaCatalogo(d) ==
  IF d.producto_id # 0 THEN productos[d.producto_id].precio_venta ELSE 0

\* the unit price shown for a line item is the column precio_unitario
PrecioDeLinea(d) == d.precio_unitario

\* a line item as the answer shows it
LineaLeida(d) ==
  [producto_id |-> d.producto_id,
   cantidad |-> d.cantidad,
   precio_unitario |-> PrecioDeLinea(d),
   subtotal |-> d.subtotal]

\* the sale as the answer shows it
VentaLeida(v, ds) ==
  [id |-> v.id,
   total |-> v.total,
   cliente_id |-> v.cliente_id,
   usuario_id |-> v.usuario_id,
   metodo_pago |-> v.metodo_pago,
   detalles |-> [j \in 1..Len(ds) |-> LineaLeida(ds[j])]]

\* (variant) the read also sees the rows staged by open transactions
LeerVentaSucia(id) ==
  LET vs == ventas \o tx[1].venta \o tx[2].venta
      ds == detalles \o tx[1].detalles \o tx[2].detalles
      filas == SelectSeq(vs, LAMBDA v : v.id = id)
  IN
  IF filas = <<>> THEN [status |-> 404, id |-> id, venta |-> <<>>]
  ELSE [status |-> 200, id |-> id,
        venta |-> <<VentaLeida(filas[1],
                               SelectSeq(ds, LAMBDA d : d.venta_id = id))>>]

\* Venta.findByPk(id, { include: [...] }) on the default connection, and the
\* answer: 404 when there is no row, 200 with the sale otherwise
LeerVenta(id) ==
  LET filas == SelectSeq(ventas, LAMBDA v : v.id = id) IN
  IF filas = <<>> THEN [status |-> 404, id |-> id, venta |-> <<>>]
  ELSE [status |-> 200, id |-> id,
        venta |-> <<VentaLeida(filas[1], DetallesDe(id))>>]

\* GET /api/ventas/:id: the read, or the 500 of its catch block
GetVenta ==
  /\ \E id \in VentaIds :
       \/ lectura' = LeerVenta(id)
       \/ lectura' = [status |-> 500, id |-> id, venta |-> <<>>]
  /\ UNCHANGED <<storeVars, reloj, lock, pc, localVars, tx, resp, ediciones,
                 fallo, descontado, tocado, catalogo, credencial>>

\* ------------------------------------------------- GET /api/productos
\* (variant) the read also sees the stock written by open transactions
LeerProductosSucio ==
  [status |-> 200,
   productos |->
     {[id |-> p,
       stock |-> IF \E r \in Reqs : tx[r].stock[p] # <<>>
                 THEN (CHOOSE w \in {tx[r].stock[p] : r \in Reqs} : w # <<>>)[1]
                 ELSE productos[p].stock,
       precio_venta |-> productos[p].precio_venta] :
      p \in {q \in ProductIds : productos[q].existe}}]

\* Producto.findAll(...) on the default connection, and the answer
LeerProductos ==
  [status |-> 200,
   productos |->
     {[id |-> p, stock |-> productos[p].stock,
       precio_venta |-> productos[p].precio_venta] :
      p \in {q \in ProductIds : productos[q].existe}}]

\* GET /api/productos: the read, or the 500 of its catch block
GetProductos ==
  /\ \/ catalogo' = LeerProductos
     \/ catalogo' = [status |-> 500, productos |-> {}]
  /\ UNCHANGED <<storeVars, reloj, lock, pc, localVars, tx, resp, ediciones,
                 fallo, descontado, tocado, lectura, credencial>>

\* ------------------------------------------------------------ specification
Next ==
  \/ \E r \in Reqs : Llegada(r)
  \/ \E r \in Reqs : AbrirTransaccion(r)
  \/ \E r \in Reqs : CrearVenta(r)
  \/ \E r \in Reqs : BuscarProducto(r)
  \/ \E r \in Reqs : Rollback404(r)
  \/ \E r \in Reqs : Rollback400(r)
  \/ \E r \in Reqs : ActualizarStock(r)
  \/ \E r \in Reqs : BulkCreate(r)
  \/ \E r \in Reqs : ActualizarTotal(r)
  \/ \E r \in Reqs : TocarCliente(r)
  \/ \E r \in Reqs : Commit(r)
  \/ \E r \in Reqs : Releer(r)
  \/ \E r \in Reqs : Catch(r)
  \/ PutProducto
  \/ PostProducto
  \/ DeleteProducto
  \/ PostCliente
  \/ PutCliente
  \/ DeleteCliente

Spec == Init /\ [][Next]_vars

\* the sale requests together with reads of sales
NextLectura ==
  \/ \E r \in Reqs : Llegada(r)
  \/ \E r \in Reqs : AbrirTransaccion(r)
  \/ \E r \in Reqs : CrearVenta(r)
  \/ \E r \in Reqs : BuscarProducto(r)
  \/ \E r \in Reqs : Rollback404(r)
  \/ \E r \in Reqs : Rollback400(r)
  \/ \E r \in Reqs : ActualizarStock(r)
  \/ \E r \in Reqs : BulkCreate(r)
  \/ \E r \in Reqs : ActualizarTotal(r)
  \/ \E r \in Reqs : TocarCliente(r)
  \/ \E r \in Reqs : Commit(r)
  \/ \E r \in Reqs : Releer(r)
  \/ \E r \in Reqs : Catch(r)
  \/ GetVenta

SpecLectura == Init /\ [][NextLectura]_vars

\* the sale requests together with listings of the catalog
NextCatalogo ==
  \/ \E r \in Reqs : Llegada(r)
  \/ \E r \in Reqs : AbrirTransaccion(r)
  \/ \E r \in Reqs : CrearVenta(r)
  \/ \E r \in Reqs : BuscarProducto(r)
  \/ \E r \in Reqs : Rollback404(r)
  \/ \E r \in Reqs : Rollback400(r)
  \/ \E r \in Reqs : ActualizarStock(r)
  \/ \E r \in Reqs : BulkCreate(r)
  \/ \E r \in Reqs : ActualizarTotal(r)
  \/ \E r \in Reqs : TocarCliente(r)
  \/ \E r \in Reqs : Commit(r)
  \/ \E r \in Reqs : Releer(r)
  \/ \E r \in Reqs : Catch(r)
  \/ GetProductos

SpecCatalogo == Init /\ [][NextCatalogo]_vars

\* ------------------------------------------------------------------ claims
\* committed rows of request r
VentasDe(r) == {k \in 1..Len(ventas) : ventas[k].origen = r}
DetallesDeReq(r) == SelectSeq(detalles, LAMBDA d : d.origen = r)
SinDescuento(r) == \A p \in ProductIds : descontado[r][p] = 0

\* nothing of request r is in the committed store
Nada(r) ==
  /\ VentasDe(r) = {}
  /\ DetallesDeReq(r) = <<>>
  /\ SinDescuento(r)
  /\ tocado[r] = {}

\* the sale of request r is in the committed store as a whole
Todo(r) ==
  /\ Cardinality(VentasDe(r)) = 1
  /\ \A k \in VentasDe(r) :
       /\ Len(DetallesDeReq(r)) = Len(ventas[k].pedido)
       /\ \A j \in 1..Len(DetallesDeReq(r)) :
            DetallesDeReq(r)[j].venta_id = ventas[k].id
       /\ \A p \in ProductIds :
            descontado[r][p] = CantidadDe(ventas[k].pedido, p)
       /\ tocado[r] = IF ventas[k].cliente # 0 THEN {ventas[k].cliente}
                      ELSE {}

\* stock of product p when the server starts
StockInicial(p) == IF p = 1 THEN MaxStock ELSE 0

\* C1: a sale request in which an item failed with NotFound or
\* InsufficientStock leaves no Sale header, no Line Item and no stock decrement
\* of its own in the committed store, also when earlier items were decremented
\* inside the transaction.
C1_AtomicidadItem ==
  \A r \in Reqs :
    fallo[r].tipo \in {"NotFound", "InsufficientStock"} =>
      /\ VentasDe(r) = {}
      /\ DetallesDeReq(r) = <<>>
      /\ SinDescuento(r)

C1_Witness ==
  \E r \in Reqs :
    /\ pc[r] = "done"
    /\ resp[r].status = 404
    /\ fallo[r].item = 2

\* C2: at every moment the committed store holds, of each sale request, either
\* all of {Sale header, every Line Item, every stock decrement, customer
\* timestamp} or none of them; a rolled back transaction leaves none.
C2_TodoONada ==
  \A r \in Reqs :
    /\ Nada(r) \/ Todo(r)
    /\ tx[r].estado # "commit" => Nada(r)

C2_Witness ==
  \E r \in Reqs :
    /\ pc[r] = "catch"
    /\ tx[r].estado = "open"
    /\ tx[r].detalles # <<>>
    /\ \E p \in ProductIds : tx[r].stock[p] # <<>>

\* C3: the total of every committed Sale is the sum of the subtotals of its
\* committed Line Items, whatever total the caller sent.
C3_TotalCorrecto ==
  \A k \in 1..Len(ventas) :
    ventas[k].total = SumSeq(Subtotales(DetallesDe(ventas[k].id)))

C3_Witness ==
  \E k \in 1..Len(ventas) :
    /\ Len(DetallesDe(ventas[k].id)) = 2
    /\ ventas[k].total \notin {0, 1}

\* C4: a committed sale took off the committed stock of each product exactly
\* the quantity its request asked of that product, and the stock is not below
\* zero after it.
C4_StockPorVenta ==
  \A r \in Reqs : \A k \in VentasDe(r) : \A p \in ProductIds :
    /\ descontado[r][p] = CantidadDe(ventas[k].pedido, p)
    /\ CantidadDe(ventas[k].pedido, p) > 0 => productos[p].stock >= 0

C4_Witness ==
  \E r \in Reqs : \E k \in VentasDe(r) :
    /\ Len(ventas[k].pedido) = 2
    /\ descontado[r][1] = 2

C6_StockNoNegativo ==
  \A p \in ProductIds : productos[p].existe => productos[p].stock \in Nat

C6_Witness ==
  /\ ediciones >= 1
  /\ Len(ventas) >= 1
  /\ \E p \in ProductIds : productos[p].existe /\ productos[p].stock = 0

\* C7: every committed Sale has one committed Line Item per requested item, in
\* order and unmerged, and at least one.
C7_LineasCompletas ==
  \A k \in 1..Len(ventas) :
    LET ds == DetallesDe(ventas[k].id)
        pedido == ventas[k].pedido
    IN
    /\ Len(ds) = Len(pedido)
    /\ Len(ds) >= 1
    /\ \A j \in 1..Len(ds) :
         /\ ds[j].producto_id \in {pedido[j].producto_id, 0}
         /\ ds[j].cantidad = pedido[j].cantidad

C7_Witness ==
  \E k \in 1..Len(ventas) :
    LET ds == DetallesDe(ventas[k].id) IN
    /\ Len(ds) = 2
    /\ ds[1].producto_id = ds[2].producto_id

\* C8: a sale request that ends with a failure outcome (anything but the 201
\* success response) has left nothing in the committed store.
C8_FalloSinEstado ==
  \A r \in Reqs :
    pc[r] = "done" /\ resp[r].status # 201 => Nada(r)

\* C9: an item fails with InsufficientStock exactly when the stock read inside
\* the transaction is below the quantity asked; a quantity equal to the stock
\* passes and leaves 0.
C9_StockInsuficiente ==
  \A r \in Reqs :
    /\ pc[r] = "rollback400" => producto[r].stock < Item(r).cantidad
    /\ pc[r] = "update" =>
         /\ producto[r].stock >= Item(r).cantidad
         /\ NuevoStock(producto[r].stock, Item(r).cantidad) >= 0
         /\ producto[r].stock = Item(r).cantidad =>
              NuevoStock(producto[r].stock, Item(r).cantidad) = 0
    /\ pc[r] \in {"find", "bulk"} /\ idx[r] > 1 =>
         /\ producto[r].stock >= 0
         /\ tx[r].stock[producto[r].id] = <<producto[r].stock>>

C9_Witness ==
  \E r \in Reqs : \E k \in VentasDe(r) :
    /\ ediciones = 0
    /\ Len(ventas[k].pedido) = 1
    /\ ventas[k].pedido[1].cantidad = StockInicial(1)
    /\ productos[1].stock = 0
    /\ resp[r].status = 201

\* C10: an item whose product does not exist makes the sale fail with NotFound
\* carrying the id of that product, and the transaction is rolled back.
C10_NotFound ==
  \A r \in Reqs :
    /\ pc[r] = "rollback404" =>
         /\ ~productos[Item(r).producto_id].existe
         /\ fallo[r].producto_id = Item(r).producto_id
    /\ pc[r] \in {"update", "rollback400"} => productos[producto[r].id].existe
    /\ resp[r].status = 404 =>
         /\ resp[r].info = fallo[r].producto_id
         /\ fallo[r].tipo = "NotFound"
         /\ tx[r].estado = "rollback"
         /\ Nada(r)

C10_Witness ==
  \E r \in Reqs :
    /\ resp[r].status = 404
    /\ resp[r].info = 2
    /\ fallo[r].item = 2

\* C11: when a sale fails with InsufficientStock for product P reporting the
\* available quantity n, the committed stock of P after the abort is n (no
\* other request has committed and no catalog write has run in between), also
\* when earlier items of the same request referenced P.
C11_StockReportado ==
  \A r \in Reqs :
    (/\ pc[r] = "done"
     /\ resp[r].status = 400
     /\ ediciones = 0
     /\ ventas = <<>>)
    => productos[fallo[r].producto_id].stock = resp[r].info

\* C12: a sale request whose line item carries no unit price (its only
\* defect for the validation) succeeds.
C12_PrecioAusente ==
  \A r \in Reqs :
    pc[r] = "done" /\ resp[r].details = "precio_unitario: any.required"
    => resp[r].status = 201 /\ VentasDe(r) # {}

\* C13: a sale request whose line item carries the unit price 0 (its only
\* defect for the validation) is processed as if it carried none: it succeeds.
C13_PrecioCero ==
  \A r \in Reqs :
    pc[r] = "done" /\ resp[r].details = "precio_unitario: number.min"
    => resp[r].status = 201 /\ VentasDe(r) # {}

\* what the validation must have established of a list of requested items
ItemsAceptables(ds) ==
  /\ Len(ds) >= 1
  /\ \A k \in 1..Len(ds) :
       /\ ds[k].cantidad >= 1
       /\ ds[k].precio_unitario # <<>>
       /\ ds[k].precio_unitario[1] >= 1

\* C14: a sale request with a payment method outside the enumeration, an
\* empty item list or a non-positive quantity or price is answered 422 without
\* opening a transaction and without any change to the store; every request
\* that reaches the store, and every committed sale, has a payment method of
\* the enumeration and a non-empty list of items with quantity and price >= 1.
C14_ValidacionPrevia ==
  /\ \A r \in Reqs :
       /\ resp[r].status = 422 =>
            /\ resp[r].details \in Rechazos
            /\ tx[r].estado = "none"
            /\ Nada(r)
       /\ tx[r].venta # <<>> =>
            /\ tx[r].venta[1].metodo_pago \in MetodosPago
            /\ ItemsAceptables(tx[r].venta[1].pedido)
  /\ \A k \in 1..Len(ventas) :
       /\ ventas[k].metodo_pago \in MetodosPago
       /\ ItemsAceptables(ventas[k].pedido)

C14_Witness ==
  \E r, q \in Reqs :
    /\ resp[r].status = 422
    /\ resp[r].details = "cantidad: number.min"
    /\ resp[q].status = 201
    /\ VentasDe(q) # {}

\* C15: a step that changes the catalog price of a product (a product update)
\* leaves the unit price and subtotal of every committed line item and the
\* total of every committed sale, as a read of the sale shows them, unchanged.
C15_PrecioCapturado ==
  [][(\E p \in ProductIds :
        /\ productos[p].existe
        /\ productos'[p].existe
        /\ productos'[p].precio_venta # productos[p].precio_venta)
     => \A id \in VentaIds : LeerVenta(id)' = LeerVenta(id)]_vars

C15_Witness ==
  \E k \in 1..Len(ventas) :
    /\ ventas[k].edicion = 0
    /\ ediciones = 1
    /\ productos[1].existe
    /\ productos[1].precio_venta # MaxPrecio
    /\ \E j \in 1..Len(DetallesDe(ventas[k].id)) :
         /\ DetallesDe(ventas[k].id)[j].producto_id = 1
         /\ LeerVenta(ventas[k].id).venta[1].detalles[j].precio_unitario
              = ventas[k].pedido[j].precio_unitario[1]

C16_ClienteInexistente ==
  \A r \in Reqs :
    pc[r] = "done" /\ fallo[r].tipo = "ForeignKey"
    => resp[r].status = 201 /\ VentasDe(r) # {}

\* C17: a successful sale with a resolving customer reference changes that
\* customer and no other; a sale without customer reference and every sale
\* request that ends in a failure change no customer; a last-purchase
\* timestamp is only ever set by a sale.
C17_ClienteSoloPorVenta ==
  /\ \A r \in Reqs :
       pc[r] = "done" =>
         IF resp[r].status = 201
         THEN \A k \in VentasDe(r) :
                tocado[r] = IF ventas[k].cliente # 0 THEN {ventas[k].cliente}
                            ELSE {}
         ELSE tocado[r] = {}
  /\ \A c \in ClienteIds :
       clientes[c].ultima_compra # 0 => \E r \in Reqs : c \in tocado[r]

\* C18: no step updates or deletes a committed Sale or a committed Line Item,
\* their product and customer references included: rows are only added.
C18_VentaInmutable ==
  [][/\ Len(ventas') >= Len(ventas)
     /\ \A k \in 1..Len(ventas) : ventas'[k] = ventas[k]
     /\ Len(detalles') >= Len(detalles)
     /\ \A k \in 1..Len(detalles) : detalles'[k] = detalles[k]]_vars

\* C20: a sale request that failed on a conflict detected by the store (the
\* write lock held by another connection) is answered, and with something
\* other than the opaque 500 used for the other storage failures.
C20_ConflictoClasificado ==
  \A r \in Reqs :
    pc[r] = "done" /\ fallo[r].tipo = "Conflict"
    => resp[r].status \notin {0, 500}

\* C21: a transaction is opened only for a request whose verified credential
\* has the role admin or vendedor; every other sale request is answered 401 or
\* 403 and leaves nothing; a product or customer row is deleted only by a
\* request whose verified credential has the role admin.
C21_RolPermitido ==
  /\ \A r \in Reqs :
       LET permitido == /\ credencial[r].token = "valido"
                        /\ credencial[r].rol \in {"admin", "vendedor"}
       IN
       /\ tx[r].estado # "none" => permitido
       /\ pc[r] # "idle" /\ ~permitido =>
            /\ pc[r] = "done"
            /\ resp[r].status \in {401, 403}
            /\ tx[r].estado = "none"
            /\ Nada(r)
  /\ (\/ \E p \in ProductIds : p <= productoSeq /\ ~productos[p].existe
      \/ \E c \in ClienteIds : c <= clienteSeq /\ ~clientes[c].existe)
     => credencial[0].token = "valido" /\ credencial[0].rol = "admin"

C21_Witness ==
  \E r, q \in Reqs :
    /\ resp[r].status = 403
    /\ credencial[r].rol = "cocina"
    /\ credencial[q].rol = "vendedor"
    /\ VentasDe(q) # {}
    /\ ~productos[1].existe
    /\ credencial[0].rol = "admin"

\* the answer l of a fetch of a sale shows a sale that a request committed, its
\* line items complete and its total the final one
VentaConfirmada(l) ==
  l.status = 200 =>
    \E q \in Reqs :
      /\ tx[q].estado = "commit"
      /\ \E k \in VentasDe(q) :
           /\ ventas[k].id = l.id
           /\ Len(l.venta[1].detalles) = Len(ventas[k].pedido)
           /\ l.venta[1].total
                = SumSeq([j \in 1..Len(l.venta[1].detalles) |->
                            l.venta[1].detalles[j].subtotal])

\* the answer c of a listing of the catalog shows, of every product, the stock
\* the committed sales left (no catalog write runs beside the reads)
CatalogoConfirmado(c) ==
  \A f \in c.productos :
    f.stock = StockInicial(f.id) - CantidadDe(detalles, f.id)

\* C22: what a read outside the transactions answers, of the catalog or of a
\* sale, never shows the uncommitted effects of a sale: no provisional Sale
\* header, no staged Line Item, no stock decrement of an open or rolled back
\* transaction.
C22_LecturaConfirmada ==
  [][/\ catalogo' # catalogo =>
          /\ catalogo'.status # 500 => catalogo' = LeerProductos
          /\ CatalogoConfirmado(catalogo')
     /\ CatalogoConfirmado(LeerProductos)'
     /\ \A id \in VentaIds : VentaConfirmada(LeerVenta(id))']_vars

C22_Witness ==
  \E r \in Reqs :
    /\ tx[r].estado = "open"
    /\ tx[r].stock[1] = <<0>>
    /\ tx[r].detalles # <<>>
    /\ catalogo = LeerProductos
    /\ \E f \in catalogo.productos : f.id = 1 /\ f.stock = MaxStock
    /\ LeerVenta(tx[r].venta[1].id).status = 404

\* quantity the items of request r before the one the loop is at ask of p
CantidadPrevia(r, p) == CantidadDe(SubSeq(body[r].detalles, 1, idx[r] - 1), p)

\* C23: the stock a sale request reads for an item is the committed stock less
\* the quantities of the earlier items of the same request on that product; an
\* item passes only if the cumulative quantity asked of its product, itself
\* included, does not exceed the stock at the start, and a committed sale has
\* taken the cumulative quantity off the stock.
C23_LeeSusDescuentos ==
  \A r \in Reqs :
    /\ pc[r] \in {"update", "rollback400"} =>
         producto[r].stock
           = productos[producto[r].id].stock - CantidadPrevia(r, producto[r].id)
    /\ pc[r] = "update" =>
         CantidadPrevia(r, producto[r].id) + Item(r).cantidad
           <= productos[producto[r].id].stock
    /\ pc[r] = "rollback400" =>
         CantidadPrevia(r, producto[r].id) + Item(r).cantidad
           > productos[producto[r].id].stock
    /\ \A k \in VentasDe(r) : \A p \in ProductIds :
         /\ descontado[r][p] = CantidadDe(ventas[k].pedido, p)
         /\ ventas[k].edicion = ediciones =>
              CantidadDe(ventas[k].pedido, p) + productos[p].stock
                <= IF ediciones = 0 THEN StockInicial(p) ELSE MaxStock

C23_Witness ==
  \E r, q \in Reqs :
    /\ pc[r] = "rollback400"
    /\ idx[r] = 2
    /\ CantidadPrevia(r, producto[r].id) >= 1
    /\ Item(r).cantidad <= productos[producto[r].id].stock
    /\ \E k \in VentasDe(q) :
         /\ Len(ventas[k].pedido) = 2
         /\ CantidadDe(ventas[k].pedido, 1) = 2

\* a line item has an integer quantity >= 1 and the subtotal quantity x price
LineaCorrecta(d) ==
  /\ d.cantidad \in Nat
  /\ d.cantidad >= 1
  /\ d.subtotal = d.cantidad * d.precio_unitario

OperadorCorrecto(v) ==
  /\ credencial[v.origen].token = "valido"
  /\ v.usuario_id = credencial[v.origen].id
  /\ v.usuario_id # 0

\* C25: the operator reference of every Sale, committed or staged, is the
\* identity of the verified credential of the request that created it, and is
\* never null.
C25_OperadorDeLaCredencial ==
  /\ \A k \in 1..Len(ventas) : OperadorCorrecto(ventas[k])
  /\ \A r \in Reqs :
       \A k \in 1..Len(tx[r].venta) : OperadorCorrecto(tx[r].venta[k])

C25_Witness ==
  \E k \in 1..Len(ventas) :
    /\ ventas[k].origen = 2
    /\ ventas[k].usuario_id = 2
    /\ credencial[2].rol = "vendedor"
    /\ body[2].usuario_id = 0

\* C26: as long as no catalog or customer write has run, the initial stock of
\* every product is its committed stock plus the quantities of all committed
\* Line Items of that product, whatever the interleaving of the sale requests:
\* no decrement of a committed sale is lost, because a request is between its
\* read of a stock and the write back only while it holds the write lock of the
\* store.
C26_StockConservado ==
  /\ ediciones = 0 =>
       \A p \in ProductIds :
         StockInicial(p) = productos[p].stock + CantidadDe(detalles, p)
  /\ \A r \in Reqs : pc[r] \in {"find", "update"} => lock = r

C26_Witness ==
  \E r, q \in Reqs :
    /\ r # q
    /\ ediciones = 0
    /\ VentasDe(r) # {}
    /\ VentasDe(q) # {}
    /\ CantidadDe(detalles, 1) = StockInicial(1)
    /\ productos[1].stock = 0

\* item j of the list request r sent, and what the items up to j ask of its
\* product
Pedido(r, j) == body[r].detalles[j]
CantidadHasta(r, j) ==
  CantidadDe(SubSeq(body[r].detalles, 1, j), Pedido(r, j).producto_id)

\* item j of request r passes both checks against the committed store
ItemPasa(r, j) ==
  /\ productos[Pedido(r, j).producto_id].existe
  /\ CantidadHasta(r, j) <= productos[Pedido(r, j).producto_id].stock

\* C27: when a sale request stops at an item, that item is the first of the
\* list, in the order sent, that is missing or under-stocked: every item before
\* it passes, the failure is NotFound exactly when its product is missing and
\* InsufficientStock otherwise, and the transaction holds decrements for the
\* items before it only.
C27_PrimerFallo ==
  \A r \in Reqs :
    /\ pc[r] \in {"rollback404", "rollback400"} =>
         /\ fallo[r].item = idx[r]
         /\ fallo[r].producto_id = Pedido(r, idx[r]).producto_id
         /\ \A j \in 1..(idx[r] - 1) : ItemPasa(r, j)
         /\ ~ItemPasa(r, idx[r])
         /\ pc[r] = "rollback404" <=>
              ~productos[Pedido(r, idx[r]).producto_id].existe
         /\ fallo[r].tipo = IF pc[r] = "rollback404" THEN "NotFound"
                            ELSE "InsufficientStock"
         /\ \A p \in ProductIds :
              tx[r].stock[p] =
                IF CantidadPrevia(r, p) > 0
                THEN <<productos[p].stock - CantidadPrevia(r, p)>>
                ELSE <<>>
    /\ resp[r].status = 404 => fallo[r].tipo = "NotFound"
    /\ resp[r].status = 400 => fallo[r].tipo = "InsufficientStock"

C27_Witness ==
  \E r \in Reqs :
    /\ pc[r] = "rollback400"
    /\ idx[r] = 1
    /\ Len(body[r].detalles) = 2
    /\ ~productos[Pedido(r, 2).producto_id].existe

\* C28: rollback is never invoked on a transaction that was already committed
\* or rolled back: the catch block, whose first statement is
\* transaction.rollback(), is only entered while the transaction is open.
C28_RollbackUnaVez ==
  \A r \in Reqs : pc[r] = "catch" => tx[r].estado = "open"

\* C29: every sale request that has left the handler has been answered: none
\* ends without a response.
C29_UnaRespuesta ==
  \A r \in Reqs : pc[r] = "done" => resp[r].status # 0

\* C30: a step of a sale request (any step that is not a catalog or customer
\* write) leaves the existence and the price of every product as they are, and
\* changes the stock of a product only when it commits a sale whose items
\* reference that product, by the quantity those items asked.
C30_MarcoProducto ==
  [][ediciones' = ediciones =>
       \A p \in ProductIds :
         /\ productos'[p].existe = productos[p].existe
         /\ productos'[p].precio_venta = productos[p].precio_venta
         /\ productos'[p].stock # productos[p].stock =>
              \E r \in Reqs :
                /\ pc[r] = "commit"
                /\ pc'[r] = "reread"
                /\ CantidadDe(tx[r].venta[1].pedido, p) > 0
                /\ productos'[p].stock
                     = productos[p].stock - CantidadDe(tx[r].venta[1].pedido, p)]_vars

C30_Witness ==
  \E k \in 1..Len(ventas) :
    /\ ventas[k].edicion = 1
    /\ CantidadDe(ventas[k].pedido, 1) >= 1
    /\ CantidadDe(ventas[k].pedido, 2) = 0
    /\ productos[1].stock < MaxStock
    /\ productos[2].existe
    /\ productos[2].stock = MaxStock
    /\ productos[2].precio_venta = 1

====
